---------------------------- MODULE Spec2Model ----------------------------
(***************************************************************************)
(* A model of goci: the build state machine and pipeline of project.go,    *)
(* and the project / build registries of the HTTP front end.               *)
(*                                                                         *)
(* Go strings are modelled as sequences of one-character strings, so that  *)
(* strings.Split, strings.Join and the target regular expression are       *)
(* computed character by character, as the code computes them.             *)
(***************************************************************************)
EXTENDS Integers, Sequences, FiniteSets, TLC

(***************************************************************************)
(* BuildStatus (project.go:322-329)                                        *)
(***************************************************************************)
BuildNotStarted == 0
BuildInProgress == 1
BuildFinished == 2
BuildFailed == 3

BuildStatus == {BuildNotStarted, BuildInProgress, BuildFinished, BuildFailed}

Terminal == {BuildFinished, BuildFailed}

(***************************************************************************)
(* Bounds of the model.                                                    *)
(***************************************************************************)
\* number of concurrent request handlers working on the one Build
MaxThreads == 2

Threads == 1..MaxThreads

\* number of concurrent request handlers of the front end
MaxClients == 2

Clients == 1..MaxClients

\* the project names requested
Names == {"demo"}

\* the commit ids references resolve to
Commits == {"abc1234", "def5678"}

\* a handler of the front end that is not running
IdleClient == [pc |-> "idle", name |-> "", ref |-> "", proj |-> 0,
               build |-> 0, err |-> FALSE]

(***************************************************************************)
(* Strings.                                                                *)
(***************************************************************************)
\* the character class \w of Go's regexp: [0-9A-Za-z_]
WordChars ==
    {"a","b","c","d","e","f","g","h","i","j","k","l","m",
     "n","o","p","q","r","s","t","u","v","w","x","y","z",
     "A","B","C","D","E","F","G","H","I","J","K","L","M",
     "N","O","P","Q","R","S","T","U","V","W","X","Y","Z",
     "0","1","2","3","4","5","6","7","8","9","_"}

\* s[i..j], empty when j < i
Slice(s, i, j) == IF j < i THEN <<>> ELSE SubSeq(s, i, j)

RECURSIVE SplitFrom(_, _, _, _)
SplitFrom(s, sep, i, cur) ==
    IF i > Len(s) THEN <<cur>>
    ELSE IF s[i] = sep THEN <<cur>> \o SplitFrom(s, sep, i + 1, <<>>)
    ELSE SplitFrom(s, sep, i + 1, Append(cur, s[i]))

\* strings.Split(s, sep) for a one-character separator; Split("", sep) is
\* the one-element slice [""]
Split(s, sep) == SplitFrom(s, sep, 1, <<>>)

RECURSIVE Join(_, _)
\* strings.Join(elems, sep)
Join(elems, sep) ==
    IF Len(elems) = 0 THEN <<>>
    ELSE IF Len(elems) = 1 THEN elems[1]
    ELSE elems[1] \o sep \o Join(Tail(elems), sep)

RECURSIVE WordRunEnd(_, _)
\* the first position >= i that does not hold a \w character
WordRunEnd(s, i) ==
    IF i > Len(s) \/ s[i] \notin WordChars THEN i ELSE WordRunEnd(s, i + 1)

RECURSIVE TagListEnd(_, _)
\* matches \w+(?:,\w+)*\) from position q; the position of the closing
\* parenthesis, or 0 when there is no match
TagListEnd(s, q) ==
    LET w == WordRunEnd(s, q) IN
    IF w = q \/ w > Len(s) THEN 0
    ELSE IF s[w] = ")" THEN w
    ELSE IF s[w] = "," THEN TagListEnd(s, w + 1)
    ELSE 0

\* a match of targetRe that starts exactly at position i
MatchAt(s, i) ==
    LET e1 == WordRunEnd(s, i)
        e2 == WordRunEnd(s, e1 + 1)
        hasOpen == e2 <= Len(s) /\ s[e2] = "("
        close == IF hasOpen THEN TagListEnd(s, e2 + 1) ELSE 0
    IN  IF e1 > i /\ e1 <= Len(s) /\ s[e1] = ":" /\ e2 > e1 + 1
        THEN [ok |-> TRUE,
              m1 |-> Slice(s, i, e1 - 1),
              m2 |-> Slice(s, e1 + 1, e2 - 1),
              m3 |-> IF close > 0 THEN Slice(s, e2 + 1, close - 1) ELSE <<>>]
        ELSE [ok |-> FALSE, m1 |-> <<>>, m2 |-> <<>>, m3 |-> <<>>]

\* targetRe.FindStringSubmatch(s): the leftmost match anywhere in s
\* (the expression is not anchored); ok = FALSE models the nil result
targetRe(s) ==
    LET starts == {i \in 1..Len(s) : MatchAt(s, i).ok} IN
    IF starts = {} THEN [ok |-> FALSE, m1 |-> <<>>, m2 |-> <<>>, m3 |-> <<>>]
    ELSE MatchAt(s, CHOOSE i \in starts : \A j \in starts : i <= j)

(***************************************************************************)
(* String constants of project.go.                                         *)
(***************************************************************************)
str_cgo == <<"c", "g", "o">>
str_windows == <<"w", "i", "n", "d", "o", "w", "s">>
str_linux == <<"l", "i", "n", "u", "x">>
str_amd64 == <<"a", "m", "d", "6", "4">>
str_386 == <<"3", "8", "6">>
str_exe == <<".", "e", "x", "e">>
str_x86_64 == <<"x", "8", "6", "_", "6", "4">>
str_x86 == <<"x", "8", "6">>
str_unknown_linux_gnu == <<"u", "n", "k", "n", "o", "w", "n", "-", "l", "i", "n", "u", "x", "-", "g", "n", "u">>
str_w64_mingw32 == <<"w", "6", "4", "-", "m", "i", "n", "g", "w", "3", "2">>
str_GOOS == <<"G", "O", "O", "S", "=">>
str_GOARCH == <<"G", "O", "A", "R", "C", "H", "=">>
str_CGO1 == <<"C", "G", "O", "_", "E", "N", "A", "B", "L", "E", "D", "=", "1">>
str_CGO0 == <<"C", "G", "O", "_", "E", "N", "A", "B", "L", "E", "D", "=", "0">>
str_CC == <<"C", "C", "=">>
str_gcc == <<"-", "g", "c", "c">>
str_demo == <<"d", "e", "m", "o">>

(***************************************************************************)
(* Values of the git configuration key goci.targets that the pipeline is   *)
(* run with.                                                               *)
(***************************************************************************)
cfgEmpty == <<>>
cfgScenarioB == <<"l", "i", "n", "u", "x", ":", "a", "m", "d", "6", "4", " ", "w", "i", "n", "d", "o", "w", "s", ":", "a", "m", "d", "6", "4">>
cfgCgo == <<"l", "i", "n", "u", "x", ":", "3", "8", "6", "(", "c", "g", "o", ",", "p", "r", "o", "d", ")">>
cfgUnknownCgo == <<"p", "l", "a", "n", "9", ":", "a", "r", "m", "(", "c", "g", "o", ")", " ", "l", "i", "n", "u", "x", ":", "a", "m", "d", "6", "4">>
cfgBogus == <<"b", "o", "g", "u", "s">>

Configs == {cfgEmpty, cfgScenarioB, cfgCgo, cfgUnknownCgo, cfgBogus}

(***************************************************************************)
(* Target (project.go:292-296) and the target parser (project.go:175-201). *)
(***************************************************************************)
DefaultTarget == [OS |-> <<>>, Arch |-> <<>>, UseCgo |-> FALSE, Tags |-> <<>>]

RECURSIVE TagsOf(_)
\* the tags of a descriptor except "cgo" (project.go:191-197)
TagsOf(tags) ==
    IF Len(tags) = 0 THEN <<>>
    ELSE IF tags[1] = str_cgo THEN TagsOf(Tail(tags))
    ELSE <<tags[1]>> \o TagsOf(Tail(tags))

\* the Target built from a match m of targetRe (project.go:186-197)
TargetOf(m) ==
    LET tags == Split(m.m3, ",") IN
    [OS |-> m.m1, Arch |-> m.m2,
     UseCgo |-> \E i \in 1..Len(tags) : tags[i] = str_cgo,
     Tags |-> TagsOf(tags)]

RECURSIVE ParseTokens(_)
\* the loop of project.go:179-200 over the space-separated tokens; it stops
\* at the first token targetRe does not match
ParseTokens(toks) ==
    IF Len(toks) = 0 THEN [ok |-> TRUE, targets |-> <<>>, bad |-> <<>>]
    ELSE LET m == targetRe(toks[1]) IN
         IF ~m.ok THEN [ok |-> FALSE, targets |-> <<>>, bad |-> toks[1]]
         ELSE LET rest == ParseTokens(Tail(toks)) IN
              IF rest.ok
              THEN [ok |-> TRUE, targets |-> <<TargetOf(m)>> \o rest.targets,
                    bad |-> <<>>]
              ELSE rest

\* project.go:175-201
ParseTargets(targetStr) ==
    IF targetStr = <<>>
    THEN [ok |-> TRUE, targets |-> <<DefaultTarget>>, bad |-> <<>>]
    ELSE ParseTokens(Split(targetStr, " "))

\* the artifact name of one target (project.go:206-218)
OutFn(name, target) ==
    LET n1 == IF target.OS # <<>> THEN name \o <<"-">> \o target.OS ELSE name
        n2 == IF target.Arch # <<>> THEN n1 \o <<"-">> \o target.Arch ELSE n1
        n3 == IF Len(target.Tags) > 0
              THEN n2 \o <<"-">> \o Join(target.Tags, <<"-">>) ELSE n2
    IN  IF target.OS = str_windows THEN n3 \o str_exe ELSE n3

\* the switch on target.Arch (project.go:235-245)
CgoArch(target) ==
    IF target.Arch = <<>> THEN [arch |-> <<>>, bad |-> FALSE]
    ELSE IF target.Arch = str_amd64 THEN [arch |-> str_x86_64, bad |-> FALSE]
    ELSE IF target.Arch = str_386 THEN [arch |-> str_x86, bad |-> FALSE]
    ELSE [arch |-> <<>>, bad |-> TRUE]

\* the switch on target.OS (project.go:247-258)
CgoOS(target) ==
    IF target.OS = <<>> THEN [os |-> <<>>, bad |-> FALSE]
    ELSE IF target.OS = str_linux
    THEN [os |-> str_unknown_linux_gnu, bad |-> FALSE]
    ELSE IF target.OS = str_windows THEN [os |-> str_w64_mingw32, bad |-> FALSE]
    ELSE [os |-> <<>>, bad |-> TRUE]

\* what the environment derivation assigns to the pipeline's err
\* (project.go:232-265): the later assignment wins, and nothing is assigned
\* without cgo or when both lookups succeed
CgoErr(target, err) ==
    IF ~target.UseCgo THEN err
    ELSE IF CgoOS(target).bad
    THEN [k |-> "unknownOS", s |-> target.OS, t |-> <<>>]
    ELSE IF CgoArch(target).bad
    THEN [k |-> "unknownArch", s |-> target.Arch, t |-> <<>>]
    ELSE err

\* the entries the loop appends to os.Environ() (project.go:226-265)
TargetEnv(target) ==
    (IF target.OS # <<>> THEN <<str_GOOS \o target.OS>> ELSE <<>>)
    \o (IF target.Arch # <<>> THEN <<str_GOARCH \o target.Arch>> ELSE <<>>)
    \o (IF target.UseCgo
        THEN <<str_CGO1>>
             \o (IF CgoArch(target).arch # <<>> /\ CgoOS(target).os # <<>>
                 THEN <<str_CC \o CgoArch(target).arch \o <<"-">>
                        \o CgoOS(target).os \o str_gcc>>
                 ELSE <<>>)
        ELSE <<str_CGO0>>)

(***************************************************************************)
(* State.                                                                  *)
(***************************************************************************)
VARIABLES
    codeDir,      \* build.CodePath exists on disk
    filesDir,     \* build.FilesPath exists on disk
    artifacts,    \* the names of the files in build.FilesPath
    gociTargets,  \* the git configuration key goci.targets of the clone
    status,       \* build.status
    buildLog,     \* build.buildLog
    launched,     \* the number of pipeline goroutines StartBuild has started
    gr,           \* the pipeline goroutine: position and local variables
    cmds,         \* the external commands the pipeline has run, in order
    req,          \* the request handlers: position and local variables
    ciProj,       \* ci.proj: project name -> Project (0: no entry)
    projM,        \* ci.projM: the handler that holds the lock (0: free)
    projects,     \* the Projects opened: name, build map, buildM
    builds,       \* the Builds constructed: project, ref, status
    cl,           \* the handlers of the front end: position and locals
    refs,         \* the clone's branch and objects, and the remote's branch
    rs,           \* a call of Project.Ref: position, locals, commands run
    co,           \* the clone's HEAD, and two pipelines with their work trees
    life          \* the lifetimes of the process: their number, what they did

vars == <<codeDir, filesDir, artifacts, gociTargets, status, buildLog,
          launched, gr, cmds, req, ciProj, projM, projects, builds, cl,
          refs, rs, co, life>>

\* the state of the clone, as the resolver and the checkouts see it
clone == <<refs, rs, co>>

\* the state of the registries and of the clone
reg == <<ciProj, projM, projects, builds, cl, clone, life>>

disk == <<codeDir, filesDir, artifacts, gociTargets>>

\* entries of the log and values of err; k = "nil" is the nil error
NoErr == [k |-> "nil", s |-> <<>>, t |-> <<>>]

LogEntry(k, s, t) == [k |-> k, s |-> s, t |-> t]

\* err.Error() as the only content of the log
ErrorText(err) == <<err>>

\* a request handler that is not running
\* pre: the status StartBuild's compare-and-swap found, kept until the
\* action of the request begins; st: the status
\* Summary or Files read; lst: the status Log read; log: the log returned
IdleReq == [pc |-> "idle", action |-> "", pre |-> BuildNotStarted,
            st |-> BuildNotStarted, lst |-> BuildNotStarted,
            log |-> <<>>, served |-> ""]

\* the pipeline goroutine before the go statement
\* hadCode, hadFiles: whether the directories existed when the goroutine
\* was started
NoGoroutine == [pc |-> "none", err |-> NoErr, status |-> BuildFailed,
                codeErr |-> "nil", filesErr |-> "nil",
                targets |-> <<>>, idx |-> 1, buf |-> <<>>,
                hadCode |-> FALSE, hadFiles |-> FALSE]

\* full commit ids of the clone, and the length git abbreviates them to
Hashes == {<<"a", "b", "c", "1", "2", "3", "4", "f">>,
           <<"d", "e", "f", "5", "6", "7", "8", "a">>}

DefaultAbbrev == 7

MinimumAbbrev == 4

\* no call of Project.Ref is running
\* ret: the values returned (actualRef, hash, err)
IdleRef == [pc |-> "idle", ref |-> <<>>, cmds |-> <<>>,
            actualRef |-> <<>>, hash |-> FALSE, err |-> "nil",
            ret |-> [actualRef |-> <<>>, hash |-> FALSE, err |-> "nil"]]

\* a clone whose branch is at a commit the remote has too
FreshClone(h) == [master |-> h, objs |-> {h}, remote |-> h]

\* the two pipelines that share the clone
Pipes == {1, 2}

\* no pipeline has run a command on the clone
\* wt: what the code directory of each pipeline holds
IdleCheckout == [HEAD |-> "abc1234",
                 wt |-> [i \in Pipes |-> "empty"],
                 p |-> [i \in Pipes |-> [pc |-> "none", ref |-> "", err |-> "nil"]]]

\* the actions table of the front end (part_000:36-39) and the webhook
Actions == {"status", "files", "webhook"}

\* the states of the build directories a previous run of the service can
\* leave behind: nothing, both directories (finished, or interrupted), or
\* the code directory alone (failed)
InitDisk ==
    /\ codeDir \in BOOLEAN
    /\ filesDir \in (IF codeDir THEN BOOLEAN ELSE {FALSE})
    /\ artifacts \in (IF filesDir THEN {{}, {OutFn(str_demo, DefaultTarget)}} ELSE {{}})
    /\ gociTargets \in ({[set |-> FALSE, val |-> <<>>]}
                        \cup {[set |-> TRUE, val |-> c] : c \in Configs})

\* a Build as GetBuild constructs it (project.go:114-118)
InitBuild ==
    /\ status = BuildNotStarted
    /\ buildLog = <<>>
    /\ launched = 0
    /\ gr = NoGoroutine
    /\ cmds = <<>>
    /\ req = [t \in Threads |-> IdleReq]

\* the registries as NewCI constructs them (part_000:23-25)
InitRegistry ==
    /\ ciProj = [n \in Names |-> 0]
    /\ projM = 0
    /\ projects = <<>>
    /\ builds = <<>>
    /\ cl = [t \in Clients |-> IdleClient]

\* the first lifetime of the process
\* built: in an earlier lifetime every target was built with exit status 0
\* failed: in an earlier lifetime a pipeline ended Failed, with the code
\* directory left and the files directory removed
FirstLife == [n |-> 1, built |-> FALSE, failed |-> FALSE]

\* a clone nothing runs on, in the first lifetime of the process
InitClone ==
    /\ life = FirstLife
    /\ refs = FreshClone(CHOOSE h \in Hashes : h[1] = "a")
    /\ rs = IdleRef
    /\ co = IdleCheckout

Init == InitDisk /\ InitBuild /\ InitRegistry /\ InitClone

(***************************************************************************)
(* Build.StartBuild, the callers' part (project.go:124-129).               *)
(***************************************************************************)
\* a plain store in place of the compare-and-swap: every call wins
CompareAndSwapInt32_store(cur, old, new) == [swapped |-> TRUE, val |-> new]

\* a guard that only refuses while a build is in progress: a finished or
\* failed build is started again
CompareAndSwapInt32_restart(cur, old, new) ==
    IF cur # new THEN [swapped |-> TRUE, val |-> new]
    ELSE [swapped |-> FALSE, val |-> cur]

\* atomic.CompareAndSwapInt32(&addr, old, new)
CompareAndSwapInt32(cur, old, new) ==
    IF cur = old THEN [swapped |-> TRUE, val |-> new]
    ELSE [swapped |-> FALSE, val |-> cur]

\* project.go:125-127, called from ServeHTTP (part_000:98) or HandleWebhook
\* (part_000:133)
StartBuild(t) ==
    /\ req[t].pc = "idle"
    /\ \E a \in Actions :
         LET cas == CompareAndSwapInt32(status, BuildNotStarted, BuildInProgress)
         IN  /\ status' = cas.val
             /\ req' = [req EXCEPT ![t] = [@ EXCEPT !.action = a,
                          !.pre = status,
                          !.pc = IF cas.swapped THEN "go" ELSE "action"]]
    /\ UNCHANGED <<reg, disk, buildLog, launched, gr, cmds>>

\* the go statement of project.go:129
StartBuild_go(t) ==
    /\ req[t].pc = "go"
    /\ launched' = launched + 1
    /\ gr' = IF gr.pc = "none"
             THEN [gr EXCEPT !.pc = "mkdirCode", !.hadCode = codeDir,
                             !.hadFiles = filesDir]
             ELSE gr
    /\ req' = [req EXCEPT ![t].pc = "action"]
    /\ UNCHANGED <<reg, disk, status, buildLog, cmds>>

(***************************************************************************)
(* The readers: Status, Log, Summary (project.go:298-320) and the actions  *)
(* of the front end (part_000:136-170).                                    *)
(***************************************************************************)
\* Log without the switch on the status
LogReadsBuildLog_always(st) == TRUE

\* the switch of Build.Log (project.go:303-308): the log is read only for
\* these values of the status
LogReadsBuildLog(st) == st \in {BuildFinished, BuildFailed}

\* HandleWebhook returns after StartBuild (part_000:133-134)
HandleWebhook_return(t) ==
    /\ req[t].pc = "action" /\ req[t].action = "webhook"
    /\ req' = [req EXCEPT ![t] = [@ EXCEPT !.pre = BuildNotStarted, !.pc = "ret"]]
    /\ UNCHANGED <<reg, disk, status, buildLog, launched, gr, cmds>>

\* Summary evaluates build.Status() (project.go:317)
Summary_Status(t) ==
    /\ req[t].pc = "action" /\ req[t].action = "status"
    /\ req' = [req EXCEPT ![t] = [@ EXCEPT !.pre = BuildNotStarted,
                                          !.st = status, !.pc = "log"]]
    /\ UNCHANGED <<reg, disk, status, buildLog, launched, gr, cmds>>

\* Summary evaluates build.Log(), which loads the status again
\* (project.go:318, 303)
Log_Status(t) ==
    /\ req[t].pc = "log"
    /\ req' = [req EXCEPT ![t] =
                 IF LogReadsBuildLog(status)
                 THEN [@ EXCEPT !.lst = status, !.pc = "logRead"]
                 ELSE [@ EXCEPT !.lst = status, !.log = <<>>, !.pc = "ret"]]
    /\ UNCHANGED <<reg, disk, status, buildLog, launched, gr, cmds>>

\* Log returns build.buildLog (project.go:305)
Log_Read(t) ==
    /\ req[t].pc = "logRead"
    /\ req' = [req EXCEPT ![t] = [@ EXCEPT !.log = buildLog, !.pc = "ret"]]
    /\ UNCHANGED <<reg, disk, status, buildLog, launched, gr, cmds>>

\* CI.Files checks the status (part_000:146-149)
Files_Status(t) ==
    /\ req[t].pc = "action" /\ req[t].action = "files"
    /\ req' = [req EXCEPT ![t] =
                 IF status # BuildFinished
                 THEN [@ EXCEPT !.pre = BuildNotStarted, !.st = status,
                                !.served = "notfound", !.pc = "ret"]
                 ELSE [@ EXCEPT !.pre = BuildNotStarted, !.st = status,
                                !.pc = "open"]]
    /\ UNCHANGED <<reg, disk, status, buildLog, launched, gr, cmds>>

\* CI.Files opens and lists build.FilesPath (part_000:151-165)
Files_Open(t) ==
    /\ req[t].pc = "open"
    /\ req' = [req EXCEPT ![t] =
                 [@ EXCEPT !.served = IF filesDir THEN "files" ELSE "notfound",
                           !.pc = "ret"]]
    /\ UNCHANGED <<reg, disk, status, buildLog, launched, gr, cmds>>

\* the handler returns; the thread is free for the next request
Return(t) ==
    /\ req[t].pc = "ret"
    /\ req' = [req EXCEPT ![t] = IdleReq]
    /\ UNCHANGED <<reg, disk, status, buildLog, launched, gr, cmds>>

(***************************************************************************)
(* The pipeline goroutine (project.go:129-287).                            *)
(***************************************************************************)
\* the results of running an external command: success, a reported non-zero
\* exit (*exec.ExitError), any other error
ExecOutcomes == {"nil", "ExitError", "other"}

\* the error Project.exec returns for an outcome (project.go:57-64)
ExecErr(outcome) ==
    IF outcome = "nil" THEN NoErr
    ELSE IF outcome = "ExitError" THEN LogEntry("GitError", <<>>, <<>>)
    ELSE LogEntry("other", <<>>, <<>>)

Cmd(k, s, env, res) == [k |-> k, s |-> s, env |-> env, res |-> res]

\* os.Mkdir(build.CodePath) (project.go:144)
MkdirCode ==
    /\ gr.pc = "mkdirCode"
    /\ \/ /\ codeDir
          /\ gr' = [gr EXCEPT !.codeErr = "exist", !.pc = "mkdirFiles"]
          /\ UNCHANGED codeDir
       \/ /\ ~codeDir
          /\ codeDir' = TRUE
          /\ gr' = [gr EXCEPT !.codeErr = "nil", !.pc = "mkdirFiles"]
       \/ /\ ~codeDir
          /\ gr' = [gr EXCEPT !.codeErr = "other", !.pc = "mkdirFiles"]
          /\ UNCHANGED codeDir
    /\ UNCHANGED <<reg, filesDir, artifacts, gociTargets, status, buildLog,
                   launched, cmds, req>>

\* a recovery check that does not test os.IsExist: existing directories
\* are reused and the build is run again
RecoveryCheck_rerun(g, filesErr) ==
    IF g.codeErr \notin {"nil", "exist"}
    THEN [g EXCEPT !.filesErr = filesErr,
                   !.err = LogEntry("mkdir", <<"c", "o", "d", "e">>, <<>>),
                   !.pc = "deferLog"]
    ELSE IF filesErr \notin {"nil", "exist"}
    THEN [g EXCEPT !.filesErr = filesErr,
                   !.err = LogEntry("mkdir", <<"f", "i", "l", "e", "s">>, <<>>),
                   !.pc = "deferLog"]
    ELSE [g EXCEPT !.filesErr = filesErr, !.pc = "checkout"]

\* the branch on codeErr and filesErr (project.go:146-159): the goroutine
\* after it, for the result filesErr of os.Mkdir(build.FilesPath)
RecoveryCheck(g, filesErr) ==
    IF g.codeErr = "exist"
    THEN [g EXCEPT !.filesErr = filesErr,
                   !.status = IF filesErr = "exist" THEN BuildFinished
                              ELSE BuildFailed,
                   !.pc = "deferLog"]
    ELSE IF g.codeErr # "nil"
    THEN [g EXCEPT !.filesErr = filesErr,
                   !.err = LogEntry("mkdir", <<"c", "o", "d", "e">>, <<>>),
                   !.pc = "deferLog"]
    ELSE IF filesErr # "nil"
    THEN [g EXCEPT !.filesErr = filesErr,
                   !.err = LogEntry("mkdir", <<"f", "i", "l", "e", "s">>, <<>>),
                   !.pc = "deferLog"]
    ELSE [g EXCEPT !.filesErr = filesErr, !.pc = "checkout"]

\* os.Mkdir(build.FilesPath) and the recovery check (project.go:145-159)
MkdirFiles ==
    /\ gr.pc = "mkdirFiles"
    /\ \/ /\ filesDir
          /\ gr' = RecoveryCheck(gr, "exist")
          /\ UNCHANGED filesDir
       \/ /\ ~filesDir
          /\ filesDir' = TRUE
          /\ gr' = RecoveryCheck(gr, "nil")
       \/ /\ ~filesDir
          /\ gr' = RecoveryCheck(gr, "other")
          /\ UNCHANGED filesDir
    /\ UNCHANGED <<reg, codeDir, artifacts, gociTargets, status, buildLog,
                   launched, cmds, req>>

\* git checkout --detach (project.go:161-164)
Checkout ==
    /\ gr.pc = "checkout"
    /\ \E o \in ExecOutcomes :
         /\ cmds' = Append(cmds, Cmd("checkout", <<>>, <<>>, o))
         /\ gr' = [gr EXCEPT !.err = ExecErr(o),
                     !.pc = IF o = "nil" THEN "reset" ELSE "deferLog"]
    /\ UNCHANGED <<reg, disk, status, buildLog, launched, req>>

\* git reset --hard (project.go:165-168)
Reset ==
    /\ gr.pc = "reset"
    /\ \E o \in ExecOutcomes :
         /\ cmds' = Append(cmds, Cmd("reset", <<>>, <<>>, o))
         /\ gr' = [gr EXCEPT !.err = ExecErr(o),
                     !.pc = IF o = "nil" THEN "config" ELSE "deferLog"]
    /\ UNCHANGED <<reg, disk, status, buildLog, launched, req>>

\* the goroutine after the target derivation (project.go:175-203)
\* the targets of the configurations of Configs, parsed once
ParsedConfigs == [c \in Configs |-> ParseTargets(c)]

DeriveTargets(g, targetStr) ==
    LET p == IF targetStr \in Configs THEN ParsedConfigs[targetStr]
             ELSE ParseTargets(targetStr) IN
    IF p.ok
    THEN [g EXCEPT !.targets = p.targets, !.idx = 1, !.buf = <<>>, !.pc = "loop"]
    ELSE [g EXCEPT !.err = LogEntry("invalidTarget", p.bad, <<>>),
                   !.pc = "deferLog"]

\* git config goci.targets and the target derivation (project.go:170-203);
\* git config exits with status 1 when the key is not set
ConfigRead ==
    /\ gr.pc = "config"
    /\ \E o \in ExecOutcomes :
         /\ o = "nil" => gociTargets.set
         /\ cmds' = Append(cmds, Cmd("config", <<>>, <<>>, o))
         /\ gr' = IF o = "nil"
                  THEN DeriveTargets([gr EXCEPT !.err = NoErr], gociTargets.val)
                  ELSE [gr EXCEPT !.err = ExecErr(o), !.pc = "deferLog"]
    /\ UNCHANGED <<reg, disk, status, buildLog, launched, req>>

\* a target loop without the break: after a failed build command the next
\* target is built
RunTarget_nobreak(g, o) ==
    LET target == g.targets[g.idx]
        outfn == OutFn(str_demo, target)
        line == LogEntry("cmdline", outfn, Join(target.Tags, <<",">>))
        g1 == [g EXCEPT !.err = CgoErr(target, g.err),
                        !.buf = Append(g.buf, line),
                        !.idx = @ + 1,
                        !.pc = IF g.idx = Len(g.targets) THEN "setLog" ELSE "loop"]
    IN  IF o = "nil"
        THEN [g1 EXCEPT !.buf = Append(@, LogEntry("output", outfn, <<>>)),
                        !.status = BuildFinished]
        ELSE IF o = "ExitError"
        THEN [g1 EXCEPT !.buf = @ \o <<LogEntry("output", outfn, <<>>),
                                        LogEntry("exitStatus", outfn, <<>>)>>,
                        !.status = BuildFailed]
        ELSE [g1 EXCEPT !.status = BuildFailed]

\* the goroutine after one iteration of the target loop whose build command
\* ended with outcome o (project.go:205-284)
RunTarget(g, o) ==
    LET target == g.targets[g.idx]
        outfn == OutFn(str_demo, target)
        line == LogEntry("cmdline", outfn, Join(target.Tags, <<",">>))
        g1 == [g EXCEPT !.err = CgoErr(target, g.err),
                        !.buf = Append(g.buf, line)]
    IN  IF o = "nil"
        THEN [g1 EXCEPT !.buf = Append(@, LogEntry("output", outfn, <<>>)),
                        !.status = BuildFinished,
                        !.idx = @ + 1,
                        !.pc = IF g.idx = Len(g.targets) THEN "setLog" ELSE "loop"]
        ELSE IF o = "ExitError"
        THEN [g1 EXCEPT !.buf = @ \o <<LogEntry("output", outfn, <<>>),
                                        LogEntry("exitStatus", outfn, <<>>)>>,
                        !.status = BuildFailed,
                        !.pc = "setLog"]
        ELSE [g1 EXCEPT !.status = BuildFailed, !.pc = "setLog"]

\* one go build of the target loop (project.go:205-284)
BuildTarget ==
    /\ gr.pc = "loop"
    /\ \E o \in ExecOutcomes :
         LET target == gr.targets[gr.idx]
             outfn == OutFn(str_demo, target)
         IN  /\ gr' = RunTarget(gr, o)
             /\ cmds' = Append(cmds, Cmd("build", outfn, TargetEnv(target), o))
             /\ artifacts' = IF o = "nil" THEN artifacts \cup {outfn}
                             ELSE artifacts
    /\ UNCHANGED <<reg, codeDir, filesDir, gociTargets, status, buildLog,
                   launched, req>>

\* build.buildLog = buildLog.String() (project.go:286)
SetBuildLog ==
    /\ gr.pc = "setLog"
    /\ buildLog' = gr.buf
    /\ gr' = [gr EXCEPT !.pc = "deferLog"]
    /\ UNCHANGED <<reg, disk, status, launched, cmds, req>>

\* the deferred function, first statement (project.go:134-137)
Defer_err ==
    /\ gr.pc = "deferLog"
    /\ IF gr.err # NoErr
       THEN /\ buildLog' = ErrorText(gr.err)
            /\ gr' = [gr EXCEPT !.status = BuildFailed, !.pc = "deferRemove"]
       ELSE /\ gr' = [gr EXCEPT !.pc = "deferRemove"]
            /\ UNCHANGED buildLog
    /\ UNCHANGED <<reg, disk, status, launched, cmds, req>>

\* a deferred function that leaves the files directory in place
RemovesFiles_never(st) == FALSE

\* whether the deferred function removes build.FilesPath (project.go:138)
RemovesFiles(st) == st = BuildFailed

\* the deferred function, os.RemoveAll(build.FilesPath) (project.go:138-140)
Defer_RemoveAll ==
    /\ gr.pc = "deferRemove"
    /\ IF RemovesFiles(gr.status)
       THEN filesDir' = FALSE /\ artifacts' = {}
       ELSE UNCHANGED <<filesDir, artifacts>>
    /\ gr' = [gr EXCEPT !.pc = "deferStore"]
    /\ UNCHANGED <<reg, codeDir, gociTargets, status, buildLog, launched, cmds, req>>

\* a deferred function that returns without the store
Defer_StoreInt32_lost ==
    /\ gr.pc = "deferStore"
    /\ status' = status
    /\ gr' = [gr EXCEPT !.pc = "done"]
    /\ UNCHANGED <<reg, disk, buildLog, launched, cmds, req>>

\* the deferred function, atomic.StoreInt32(&build.status, status)
\* (project.go:141)
Defer_StoreInt32 ==
    /\ gr.pc = "deferStore"
    /\ status' = gr.status
    /\ gr' = [gr EXCEPT !.pc = "done"]
    /\ UNCHANGED <<reg, disk, buildLog, launched, cmds, req>>

Pipeline ==
    \/ MkdirCode
    \/ MkdirFiles
    \/ Checkout
    \/ Reset
    \/ ConfigRead
    \/ BuildTarget
    \/ SetBuildLog
    \/ Defer_err
    \/ Defer_RemoveAll
    \/ Defer_StoreInt32

Handler(t) ==
    \/ StartBuild(t)
    \/ StartBuild_go(t)
    \/ HandleWebhook_return(t)
    \/ Summary_Status(t)
    \/ Log_Status(t)
    \/ Log_Read(t)
    \/ Files_Status(t)
    \/ Files_Open(t)
    \/ Return(t)

Next == Pipeline \/ \E t \in Threads : Handler(t)

Spec == Init /\ [][Next]_vars

\* the scheduler runs the goroutine of the pipeline and the handler that is
\* at its go statement, and every external command returns
SpecFair ==
    /\ Spec
    /\ WF_vars(Pipeline)
    /\ \A t \in Threads : WF_vars(StartBuild_go(t))

(***************************************************************************)
(* The registries: CI.Project (part_000:172-184), OpenProject              *)
(* (project.go:24-45) and Project.GetBuild (project.go:99-122), as the     *)
(* handlers of ServeHTTP and HandleWebhook call them.                      *)
(***************************************************************************)
build == <<codeDir, filesDir, artifacts, gociTargets, status, buildLog,
           launched, gr, cmds, req, clone, life>>

\* a Project as OpenProject returns it (project.go:30-33)
NewProject(name) == [name |-> name, build |-> [c \in Commits |-> 0], buildM |-> 0]

\* a Build as GetBuild constructs it (project.go:114-118)
NewBuild(p, ref) == [proj |-> p, ref |-> ref, status |-> BuildNotStarted,
                     launched |-> 0]

\* the handler moves on with the new values of its locals
Step(t, r) == cl' = [cl EXCEPT ![t] = r]

\* ServeHTTP calls ci.Project(project) (part_000:57); HandleWebhook is
\* called with the same Project (part_000:66)
ServeHTTP(t) ==
    /\ cl[t].pc = "idle"
    /\ \E n \in Names : Step(t, [cl[t] EXCEPT !.name = n, !.pc = "pLock"])
    /\ UNCHANGED <<build, ciProj, projM, projects, builds>>

\* ci.projM.Lock() (part_000:173)
Project_Lock(t) ==
    /\ cl[t].pc = "pLock"
    /\ projM = 0
    /\ projM' = t
    /\ Step(t, [cl[t] EXCEPT !.pc = "pLookup"])
    /\ UNCHANGED <<build, ciProj, projects, builds>>

\* proj, ok := ci.proj[name] (part_000:175-176)
Project_lookup(t) ==
    /\ cl[t].pc = "pLookup"
    /\ Step(t, IF ciProj[cl[t].name] # 0
               THEN [cl[t] EXCEPT !.proj = ciProj[cl[t].name], !.pc = "pUnlock"]
               ELSE [cl[t] EXCEPT !.pc = "pOpen"])
    /\ UNCHANGED <<build, ciProj, projM, projects, builds>>

\* OpenProject whose Project is kept when it fails
Project_OpenProject_keepsFailed(t) ==
    /\ cl[t].pc = "pOpen"
    /\ \/ /\ projects' = Append(projects, NewProject(cl[t].name))
          /\ Step(t, [cl[t] EXCEPT !.proj = Len(projects) + 1, !.pc = "pInsert"])
       \/ /\ projects' = Append(projects, NewProject(cl[t].name))
          /\ Step(t, [cl[t] EXCEPT !.proj = Len(projects) + 1, !.err = TRUE,
                                   !.pc = "pInsert"])
    /\ UNCHANGED <<build, ciProj, projM, builds>>

\* OpenProject: os.Stat of the clone and git remote get-url
\* (part_000:177-180, project.go:24-45); either can fail
Project_OpenProject(t) ==
    /\ cl[t].pc = "pOpen"
    /\ \/ /\ projects' = Append(projects, NewProject(cl[t].name))
          /\ Step(t, [cl[t] EXCEPT !.proj = Len(projects) + 1, !.pc = "pInsert"])
       \/ /\ Step(t, [cl[t] EXCEPT !.err = TRUE, !.pc = "pUnlock"])
          /\ UNCHANGED projects
    /\ UNCHANGED <<build, ciProj, projM, builds>>

\* ci.proj[name] = proj (part_000:181)
Project_insert(t) ==
    /\ cl[t].pc = "pInsert"
    /\ ciProj' = [ciProj EXCEPT ![cl[t].name] = cl[t].proj]
    /\ Step(t, [cl[t] EXCEPT !.pc = "pUnlock"])
    /\ UNCHANGED <<build, projM, projects, builds>>

\* the deferred ci.projM.Unlock() and the return (part_000:174, 183);
\* ServeHTTP answers not found on an error (part_000:58-62)
Project_Unlock(t) ==
    /\ cl[t].pc = "pUnlock"
    /\ projM' = 0
    /\ Step(t, [cl[t] EXCEPT !.pc = IF cl[t].err THEN "ret" ELSE "ref"])
    /\ UNCHANGED <<build, ciProj, projects, builds>>

\* proj.Ref(ref) as the handlers use it (part_000:78-89, 125-128): an
\* error, a redirect to the resolved id, or the resolved id
ServeHTTP_Ref(t) ==
    /\ cl[t].pc = "ref"
    /\ \/ Step(t, [cl[t] EXCEPT !.err = TRUE, !.pc = "ret"])
       \/ Step(t, [cl[t] EXCEPT !.pc = "ret"])
       \/ \E c \in Commits : Step(t, [cl[t] EXCEPT !.ref = c, !.pc = "gLock"])
    /\ UNCHANGED <<build, ciProj, projM, projects, builds>>

\* proj.buildM.Lock() (project.go:100)
GetBuild_Lock(t) ==
    /\ cl[t].pc = "gLock"
    /\ projects[cl[t].proj].buildM = 0
    /\ projects' = [projects EXCEPT ![cl[t].proj].buildM = t]
    /\ Step(t, [cl[t] EXCEPT !.pc = "gLookup"])
    /\ UNCHANGED <<build, ciProj, projM, builds>>

\* build, ok := proj.build[ref] (project.go:102-103)
GetBuild_lookup(t) ==
    /\ cl[t].pc = "gLookup"
    /\ LET b == projects[cl[t].proj].build[cl[t].ref] IN
       Step(t, IF b # 0 THEN [cl[t] EXCEPT !.build = b, !.pc = "gUnlock"]
               ELSE [cl[t] EXCEPT !.pc = "gMkdir"])
    /\ UNCHANGED <<build, ciProj, projM, projects, builds>>

\* os.MkdirAll(path) (project.go:104-107)
GetBuild_MkdirAll(t) ==
    /\ cl[t].pc = "gMkdir"
    /\ \/ Step(t, [cl[t] EXCEPT !.pc = "gExec"])
       \/ Step(t, [cl[t] EXCEPT !.err = TRUE, !.pc = "gUnlock"])
    /\ UNCHANGED <<build, ciProj, projM, projects, builds>>

\* git show-branch (project.go:109-112)
GetBuild_exec(t) ==
    /\ cl[t].pc = "gExec"
    /\ \/ Step(t, [cl[t] EXCEPT !.pc = "gInsert"])
       \/ Step(t, [cl[t] EXCEPT !.err = TRUE, !.pc = "gUnlock"])
    /\ UNCHANGED <<build, ciProj, projM, projects, builds>>

\* build = &Build{...}; proj.build[ref] = build (project.go:114-119)
GetBuild_insert(t) ==
    /\ cl[t].pc = "gInsert"
    /\ builds' = Append(builds, NewBuild(cl[t].proj, cl[t].ref))
    /\ projects' = [projects EXCEPT
                      ![cl[t].proj].build[cl[t].ref] = Len(builds) + 1]
    /\ Step(t, [cl[t] EXCEPT !.build = Len(builds) + 1, !.pc = "gUnlock"])
    /\ UNCHANGED <<build, ciProj, projM>>

\* the deferred proj.buildM.Unlock() and the return (project.go:101, 121)
GetBuild_Unlock(t) ==
    /\ cl[t].pc = "gUnlock"
    /\ projects' = [projects EXCEPT ![cl[t].proj].buildM = 0]
    /\ Step(t, [cl[t] EXCEPT !.pc = IF cl[t].err THEN "ret" ELSE "start"])
    /\ UNCHANGED <<build, ciProj, projM, builds>>

\* build.StartBuild() on the Build GetBuild returned (part_000:98, 133;
\* project.go:125-127)
ServeHTTP_StartBuild(t) ==
    /\ cl[t].pc = "start"
    /\ LET b == cl[t].build
           cas == CompareAndSwapInt32(builds[b].status, BuildNotStarted,
                                      BuildInProgress)
       IN  /\ builds' = [builds EXCEPT ![b].status = cas.val]
           /\ Step(t, [cl[t] EXCEPT !.pc = IF cas.swapped THEN "go" ELSE "ret"])
    /\ UNCHANGED <<build, ciProj, projM, projects>>

\* the go statement of StartBuild (project.go:129)
ServeHTTP_go(t) ==
    /\ cl[t].pc = "go"
    /\ builds' = [builds EXCEPT ![cl[t].build].launched = @ + 1]
    /\ Step(t, [cl[t] EXCEPT !.pc = "ret"])
    /\ UNCHANGED <<build, ciProj, projM, projects>>

\* the pipeline of a Build stores its terminal status (project.go:141)
PipelineEnds ==
    /\ \E b \in 1..Len(builds), s \in Terminal :
         /\ builds[b].status = BuildInProgress
         /\ builds[b].launched > 0
         /\ builds' = [builds EXCEPT ![b].status = s]
    /\ UNCHANGED <<build, ciProj, projM, projects, cl>>

\* the handler returns; the thread is free for the next request
ServeHTTP_return(t) ==
    /\ cl[t].pc = "ret"
    /\ Step(t, IdleClient)
    /\ UNCHANGED <<build, ciProj, projM, projects, builds>>

NextRegistry ==
    \/ PipelineEnds
    \/ \E t \in Clients :
         \/ ServeHTTP(t)
         \/ Project_Lock(t)
         \/ Project_lookup(t)
         \/ Project_OpenProject(t)
         \/ Project_insert(t)
         \/ Project_Unlock(t)
         \/ ServeHTTP_Ref(t)
         \/ GetBuild_Lock(t)
         \/ GetBuild_lookup(t)
         \/ GetBuild_MkdirAll(t)
         \/ GetBuild_exec(t)
         \/ GetBuild_insert(t)
         \/ GetBuild_Unlock(t)
         \/ ServeHTTP_StartBuild(t)
         \/ ServeHTTP_go(t)
         \/ ServeHTTP_return(t)

\* the registries of a service whose build directories are empty
InitIdle ==
    /\ codeDir = FALSE /\ filesDir = FALSE /\ artifacts = {}
    /\ gociTargets = [set |-> FALSE, val |-> <<>>]
    /\ InitBuild
    /\ InitRegistry
    /\ InitClone

SpecRegistry == InitIdle /\ [][NextRegistry]_vars

(***************************************************************************)
(* The registries without locks: CI.Project of serve.go:124-134 and        *)
(* Project.GetBuild of part_002:95-116, called from ServeHTTP              *)
(* (serve.go:36-88), each request on a goroutine of its own.               *)
(***************************************************************************)
\* ServeHTTP calls ci.Project(project) (serve.go:59)
ServeHTTP0(t) ==
    /\ cl[t].pc = "idle"
    /\ \E n \in Names : Step(t, [cl[t] EXCEPT !.name = n, !.pc = "pLookup"])
    /\ UNCHANGED <<build, ciProj, projM, projects, builds>>

\* proj, ok := ci.proj[name] (serve.go:125-126)
Project0_lookup(t) ==
    /\ cl[t].pc = "pLookup"
    /\ Step(t, IF ciProj[cl[t].name] # 0
               THEN [cl[t] EXCEPT !.proj = ciProj[cl[t].name], !.pc = "ref"]
               ELSE [cl[t] EXCEPT !.pc = "pOpen"])
    /\ UNCHANGED <<build, ciProj, projM, projects, builds>>

\* OpenProject (serve.go:127-130, part_002:20-41); on an error ServeHTTP
\* answers not found (serve.go:60-64)
Project0_OpenProject(t) ==
    /\ cl[t].pc = "pOpen"
    /\ \/ /\ projects' = Append(projects, NewProject(cl[t].name))
          /\ Step(t, [cl[t] EXCEPT !.proj = Len(projects) + 1, !.pc = "pInsert"])
       \/ /\ Step(t, [cl[t] EXCEPT !.err = TRUE, !.pc = "ret"])
          /\ UNCHANGED projects
    /\ UNCHANGED <<build, ciProj, projM, builds>>

\* ci.proj[name] = proj (serve.go:131)
Project0_insert(t) ==
    /\ cl[t].pc = "pInsert"
    /\ ciProj' = [ciProj EXCEPT ![cl[t].name] = cl[t].proj]
    /\ Step(t, [cl[t] EXCEPT !.pc = "ref"])
    /\ UNCHANGED <<build, projM, projects, builds>>

\* proj.Ref(ref) as ServeHTTP uses it (serve.go:66-77): an error, a
\* redirect to the resolved id, or the resolved id
ServeHTTP0_Ref(t) ==
    /\ cl[t].pc = "ref"
    /\ \/ Step(t, [cl[t] EXCEPT !.err = TRUE, !.pc = "ret"])
       \/ Step(t, [cl[t] EXCEPT !.pc = "ret"])
       \/ \E c \in Commits : Step(t, [cl[t] EXCEPT !.ref = c, !.pc = "gLookup"])
    /\ UNCHANGED <<build, ciProj, projM, projects, builds>>

\* build, ok := proj.build[ref] (part_002:96-97)
GetBuild0_lookup(t) ==
    /\ cl[t].pc = "gLookup"
    /\ LET b == projects[cl[t].proj].build[cl[t].ref] IN
       Step(t, IF b # 0 THEN [cl[t] EXCEPT !.build = b, !.pc = "start"]
               ELSE [cl[t] EXCEPT !.pc = "gMkdir"])
    /\ UNCHANGED <<build, ciProj, projM, projects, builds>>

\* os.MkdirAll(path) (part_002:98-101)
GetBuild0_MkdirAll(t) ==
    /\ cl[t].pc = "gMkdir"
    /\ \/ Step(t, [cl[t] EXCEPT !.pc = "gExec"])
       \/ Step(t, [cl[t] EXCEPT !.err = TRUE, !.pc = "ret"])
    /\ UNCHANGED <<build, ciProj, projM, projects, builds>>

\* git show-branch (part_002:103-106)
GetBuild0_exec(t) ==
    /\ cl[t].pc = "gExec"
    /\ \/ Step(t, [cl[t] EXCEPT !.pc = "gInsert"])
       \/ Step(t, [cl[t] EXCEPT !.err = TRUE, !.pc = "ret"])
    /\ UNCHANGED <<build, ciProj, projM, projects, builds>>

\* build = &Build{...}; proj.build[ref] = build (part_002:108-113)
GetBuild0_insert(t) ==
    /\ cl[t].pc = "gInsert"
    /\ builds' = Append(builds, NewBuild(cl[t].proj, cl[t].ref))
    /\ projects' = [projects EXCEPT
                      ![cl[t].proj].build[cl[t].ref] = Len(builds) + 1]
    /\ Step(t, [cl[t] EXCEPT !.build = Len(builds) + 1, !.pc = "start"])
    /\ UNCHANGED <<build, ciProj, projM>>

\* the handlers that are about to read (lookup) or write (insert) the map
\* ci.proj, and the map proj.build of Project p
ProjReaders == {t \in Clients : cl[t].pc = "pLookup"}
ProjWriters == {t \in Clients : cl[t].pc = "pInsert"}
BuildReaders(p) == {t \in Clients : cl[t].pc = "gLookup" /\ cl[t].proj = p}
BuildWriters(p) == {t \in Clients : cl[t].pc = "gInsert" /\ cl[t].proj = p}

\* two goroutines access one map without synchronization and one of them
\* writes: the Go runtime may stop the process with "fatal error:
\* concurrent map writes" (or "... map read and map write")
ConcurrentMapAccess ==
    /\ \/ \E w \in ProjWriters : (ProjReaders \cup ProjWriters) \ {w} # {}
       \/ \E p \in 1..Len(projects) :
            \E w \in BuildWriters(p) :
                (BuildReaders(p) \cup BuildWriters(p)) \ {w} # {}
    /\ cl' = [t \in Clients |-> [cl[t] EXCEPT !.pc = "fatal"]]
    /\ UNCHANGED <<build, ciProj, projM, projects, builds>>

NextUnsync ==
    \/ ConcurrentMapAccess
    \/ \E t \in Clients :
         \/ ServeHTTP0(t)
         \/ Project0_lookup(t)
         \/ Project0_OpenProject(t)
         \/ Project0_insert(t)
         \/ ServeHTTP0_Ref(t)
         \/ GetBuild0_lookup(t)
         \/ GetBuild0_MkdirAll(t)
         \/ GetBuild0_exec(t)
         \/ GetBuild0_insert(t)
         \/ ServeHTTP_StartBuild(t)
         \/ ServeHTTP_go(t)
         \/ ServeHTTP_return(t)

SpecUnsync == InitIdle /\ [][NextUnsync]_vars

(***************************************************************************)
(* The pipeline from the configuration read on, for every value of         *)
(* goci.targets up to a length: the target parser and the target loop.     *)
(***************************************************************************)
\* the longest configuration string
MaxCfgLen == 5

\* a word character, the punctuation of the descriptors, the separator of
\* the list, and a character that is none of these
CfgAlphabet == {"a", ":", "(", ")", ",", " ", "-"}

CfgStrings == UNION {[1..k -> CfgAlphabet] : k \in 0..MaxCfgLen}

\* the goroutine after MkdirCode, MkdirFiles, Checkout and Reset have
\* succeeded in fresh directories (project.go:144-168)
InitParse ==
    /\ codeDir = TRUE /\ filesDir = TRUE /\ artifacts = {}
    /\ gociTargets \in {[set |-> TRUE, val |-> c] : c \in CfgStrings}
    /\ status = BuildInProgress
    /\ buildLog = <<>>
    /\ launched = 1
    /\ gr = [NoGoroutine EXCEPT !.pc = "config"]
    /\ cmds = <<Cmd("checkout", <<>>, <<>>, "nil"), Cmd("reset", <<>>, <<>>, "nil")>>
    /\ req = [t \in Threads |-> IdleReq]
    /\ InitRegistry
    /\ InitClone

NextParse ==
    \/ ConfigRead
    \/ BuildTarget
    \/ SetBuildLog
    \/ Defer_err
    \/ Defer_RemoveAll
    \/ Defer_StoreInt32

SpecParse == InitParse /\ [][NextParse]_vars

(***************************************************************************)
(* Project.Ref (project.go:72-85) on a clone whose remote moves: the two   *)
(* git rev-parse lookups and the fetch between them.                       *)
(***************************************************************************)
\* everything but the clone
service == <<codeDir, filesDir, artifacts, gociTargets, status, buildLog,
             launched, gr, cmds, req, ciProj, projM, projects, builds, cl,
             life>>

str_master == <<"m", "a", "s", "t", "e", "r">>
str_nosuch == <<"n", "o", "s", "u", "c", "h">>

\* the lengths of the commit-id prefixes a request names
RefLens == {3, 5, 7, 8}

\* the references a request names: the branch, prefixes of commit ids, and
\* a name of nothing
Refs == {str_master, str_nosuch} \cup {Slice(h, 1, n) : h \in Hashes, n \in RefLens}

IsPrefix(p, h) == Len(p) <= Len(h) /\ Slice(h, 1, Len(p)) = p

\* the commits a reference names in the clone
Resolve(ref) ==
    IF ref = str_master THEN {refs.master}
    ELSE IF Len(ref) >= MinimumAbbrev THEN {h \in refs.objs : IsPrefix(ref, h)}
    ELSE {}

\* git rev-parse --short=n abbreviates to at least n and at least
\* MinimumAbbrev characters
Short(h, n) ==
    LET m == IF n < MinimumAbbrev THEN MinimumAbbrev ELSE n
    IN  Slice(h, 1, IF m > Len(h) THEN Len(h) ELSE m)

\* the results proj.exec("git", "rev-parse", "--short=n", ref) can have
\* (project.go:53-65): the abbreviated id, git's error, or a failure to
\* run git
RevParse(ref, n) ==
    {[res |-> "nil", out |-> Short(h, n)] : h \in Resolve(ref)}
    \cup (IF Resolve(ref) = {} THEN {[res |-> "ExitError", out |-> <<>>]} ELSE {})
    \cup {[res |-> "other", out |-> <<>>]}

GitCmd(k, r) == [k |-> k, res |-> r.res, out |-> r.out]

\* a handler calls proj.Ref(ref) (part_000:78, 124)
Ref(ref) ==
    /\ rs.pc = "idle"
    /\ rs' = [IdleRef EXCEPT !.pc = "first", !.ref = ref]
    /\ UNCHANGED <<service, refs, co>>

\* err != nil || actualRef != ref (project.go:74)
NeedsFetch_errOnly(ref, r) == r.res # "nil"

NeedsFetch(ref, r) == r.res # "nil" \/ r.out # ref

\* the first lookup, and the choice between the fetch and hash = true
\* (project.go:73-78)
Ref_first ==
    /\ rs.pc = "first"
    /\ \E r \in RevParse(rs.ref, Len(rs.ref)) :
         rs' = [rs EXCEPT !.cmds = Append(@, GitCmd("rev-parse-len", r)),
                          !.actualRef = r.out,
                          !.err = r.res,
                          !.hash = ~NeedsFetch(rs.ref, r),
                          !.pc = IF NeedsFetch(rs.ref, r) THEN "fetch" ELSE "final"]
    /\ UNCHANGED <<service, refs, co>>

\* proj.Fetch(), its error dropped (project.go:67-70, 75)
Ref_Fetch ==
    /\ rs.pc = "fetch"
    /\ \E o \in ExecOutcomes :
         /\ rs' = [rs EXCEPT !.cmds = Append(@, GitCmd("fetch", [res |-> o, out |-> <<>>])),
                             !.pc = "final"]
         /\ refs' = IF o = "nil"
                    THEN [refs EXCEPT !.master = refs.remote,
                                      !.objs = @ \cup {refs.remote}]
                    ELSE refs
    /\ UNCHANGED <<service, co>>

\* the canonical lookup and the return (project.go:80-84)
Ref_final ==
    /\ rs.pc = "final"
    /\ \E r \in RevParse(rs.ref, DefaultAbbrev) :
         rs' = [rs EXCEPT !.cmds = Append(@, GitCmd("rev-parse", r)),
                          !.actualRef = r.out,
                          !.err = r.res,
                          !.ret = IF r.res # "nil"
                                  THEN [actualRef |-> <<>>, hash |-> FALSE, err |-> r.res]
                                  ELSE [actualRef |-> r.out, hash |-> rs.hash, err |-> "nil"],
                          !.pc = "done"]
    /\ UNCHANGED <<service, refs, co>>

\* the handler goes on with the values returned
Ref_return ==
    /\ rs.pc = "done"
    /\ rs' = IdleRef
    /\ UNCHANGED <<service, refs, co>>

\* somebody pushes another commit to the remote's branch
Push ==
    /\ \E h \in Hashes \ {refs.remote} : refs' = [refs EXCEPT !.remote = h]
    /\ UNCHANGED <<service, rs, co>>

NextRef ==
    \/ \E ref \in Refs : Ref(ref)
    \/ Ref_first
    \/ Ref_Fetch
    \/ Ref_final
    \/ Ref_return
    \/ Push

InitRef ==
    /\ codeDir = FALSE /\ filesDir = FALSE /\ artifacts = {}
    /\ gociTargets = [set |-> FALSE, val |-> <<>>]
    /\ InitBuild
    /\ InitRegistry
    /\ refs \in {FreshClone(h) : h \in Hashes}
    /\ life = FirstLife
    /\ rs = IdleRef
    /\ co = IdleCheckout

SpecRef == InitRef /\ [][NextRef]_vars

(***************************************************************************)
(* Two pipelines of one Project, for different commits, at their checkout  *)
(* and reset (project.go:161-168).  Both run git in proj.path              *)
(* (project.go:55), so they share the clone's HEAD and index; each has its *)
(* own work tree, build.CodePath.                                          *)
(***************************************************************************)
\* the assignments of different commits to the two pipelines
RefsOfPipes == {f \in [Pipes -> Commits] : \A i, j \in Pipes : i # j => f[i] # f[j]}

\* the goroutine of pipeline i is started with a fresh code directory
\* (project.go:129, 144-159)
StartBuild_shared(i) ==
    /\ co.p[i].pc = "none"
    /\ co' = [co EXCEPT !.p[i].pc = "checkout"]
    /\ UNCHANGED <<service, refs, rs>>

\* git --work-tree CodePath checkout --detach ref (project.go:161-164):
\* moves HEAD and the index to ref and writes to the work tree the files
\* that differ between the old HEAD and ref, which in a fresh work tree are
\* some of ref's files or all of them
Checkout_shared(i) ==
    /\ co.p[i].pc = "checkout"
    /\ \E o \in ExecOutcomes :
         IF o = "nil"
         THEN \E w \in {"partial", co.p[i].ref} :
                co' = [co EXCEPT !.HEAD = co.p[i].ref, !.wt[i] = w,
                                 !.p[i].pc = "reset"]
         ELSE co' = [co EXCEPT !.p[i].err = o, !.p[i].pc = "deferLog"]
    /\ UNCHANGED <<service, refs, rs>>

\* git --work-tree CodePath reset --hard (project.go:165-168): sets the
\* index and the work tree to HEAD
Reset_shared(i) ==
    /\ co.p[i].pc = "reset"
    /\ \E o \in ExecOutcomes :
         IF o = "nil"
         THEN co' = [co EXCEPT !.wt[i] = co.HEAD, !.p[i].pc = "config"]
         ELSE co' = [co EXCEPT !.p[i].err = o, !.p[i].pc = "deferLog"]
    /\ UNCHANGED <<service, refs, rs>>

NextCheckout ==
    \E i \in Pipes : StartBuild_shared(i) \/ Checkout_shared(i) \/ Reset_shared(i)

InitCheckout ==
    /\ codeDir = FALSE /\ filesDir = FALSE /\ artifacts = {}
    /\ gociTargets = [set |-> FALSE, val |-> <<>>]
    /\ InitBuild
    /\ InitRegistry
    /\ refs = FreshClone(CHOOSE h \in Hashes : h[1] = "a")
    /\ life = FirstLife
    /\ rs = IdleRef
    /\ co \in {[IdleCheckout EXCEPT !.HEAD = h,
                  !.p = [i \in Pipes |-> [pc |-> "none", ref |-> f[i], err |-> "nil"]]] :
               h \in Commits, f \in RefsOfPipes}

SpecCheckout == InitCheckout /\ [][NextCheckout]_vars

(***************************************************************************)
(* Properties of the build state machine and the pipeline.                 *)
(***************************************************************************)
IsBuild(c) == c.k = "build"

\* the build commands the pipeline has run, in order
Builds == SelectSeq(cmds, IsBuild)

\* the handlers that have won the compare-and-swap and not yet executed the
\* go statement
Winners == {t \in Threads : req[t].pc = "go"}

\* C1: whatever the number of StartBuild calls on one Build and however
\* they interleave, exactly one of them makes the NotStarted -> InProgress
\* transition and launches the pipeline; no other call launches anything.
C1_ExactlyOnePipeline ==
    /\ launched + Cardinality(Winners)
         = (IF status = BuildNotStarted THEN 0 ELSE 1)
    /\ \A t \in Threads :
         req[t].pc = "go" => req[t].pre = BuildNotStarted

\* two handlers have both called StartBuild on the Build and one pipeline
\* was launched
C1_Witness ==
    /\ launched = 1
    /\ \A t \in Threads : req[t].pc = "action"
    /\ \E t \in Threads : req[t].pre = BuildNotStarted
    /\ \E t \in Threads : req[t].pre # BuildNotStarted

\* C2: the status only moves NotStarted -> InProgress -> Finished or
\* Failed, and once it is Finished or Failed no step (a StartBuild call or
\* a pipeline step) changes the status or the log.
C2_StatusForward ==
    [][/\ status' # status =>
            <<status, status'>> \in {<<BuildNotStarted, BuildInProgress>>,
                                     <<BuildInProgress, BuildFinished>>,
                                     <<BuildInProgress, BuildFailed>>}
       /\ status \in Terminal => status' = status /\ buildLog' = buildLog]_vars

\* a StartBuild call found the Build in a terminal state and left it there
C2_Witness ==
    \E t \in Threads :
        /\ req[t].pc = "action"
        /\ req[t].pre \in Terminal
        /\ status = req[t].pre
        /\ buildLog # <<>>

\* C3: for a reader running concurrently with the pipeline, Log returns
\* the empty string when the status it reads is NotStarted or InProgress,
\* and when it reads a terminal status the log it returns is the final log:
\* the pipeline has finished writing the log by then.
C3_LogCompleteWhenTerminal ==
    \A t \in Threads :
        (req[t].pc = "ret" /\ req[t].action = "status") =>
            /\ req[t].lst \notin Terminal => req[t].log = <<>>
            /\ req[t].lst \in Terminal =>
                   req[t].log = buildLog /\ gr.pc = "done"

\* a reader returned the non-empty log of a failed build
C3_Witness ==
    \E t \in Threads :
        /\ req[t].pc = "ret" /\ req[t].action = "status"
        /\ req[t].lst = BuildFailed
        /\ req[t].log # <<>>

\* C4: every value Summary returns pairs a non-empty log only with the
\* status Finished or Failed.
C4_SummaryConsistent ==
    \A t \in Threads :
        (req[t].pc = "ret" /\ req[t].action = "status") =>
            (req[t].log # <<>> => req[t].st \in Terminal)

\* C6: when the code directory exists as the pipeline starts, the pipeline
\* runs no checkout and no build command, and ends Finished if the files
\* directory existed as well and Failed otherwise.
C6_CrashRecovery ==
    gr.hadCode =>
        /\ cmds = <<>>
        /\ gr.pc = "done" =>
               status = (IF gr.hadFiles THEN BuildFinished ELSE BuildFailed)

\* a pipeline that found both directories has ended Finished
C6_Witness ==
    /\ gr.pc = "done" /\ gr.hadCode /\ gr.hadFiles
    /\ status = BuildFinished

\* C7: whenever the status is Failed the files directory does not exist,
\* and the files action lists the directory only for a Finished build.
C7_FailedHasNoFiles ==
    /\ status = BuildFailed => ~filesDir /\ artifacts = {}
    /\ \A t \in Threads :
         req[t].served = "files" => status = BuildFinished /\ filesDir

\* a build whose first target was built and whose second target failed
\* has ended Failed
C7_Witness ==
    /\ status = BuildFailed
    /\ Len(Builds) = 2
    /\ Builds[1].res = "nil"

\* C9: checkout and reset complete before any target build starts, the
\* targets are built in the order of the configuration, and after a build
\* command that exits non-zero no further target is built and the build
\* ends Failed.
C9_PipelineOrder ==
    /\ \A i \in 1..Len(cmds) :
         cmds[i].k = "build" =>
            \E j, l \in 1..(i - 1) :
                /\ j < l
                /\ cmds[j].k = "checkout" /\ cmds[j].res = "nil"
                /\ cmds[l].k = "reset" /\ cmds[l].res = "nil"
    /\ \A n \in 1..Len(Builds) :
         /\ n <= Len(ParseTargets(gociTargets.val).targets)
         /\ Builds[n].s = OutFn(str_demo, ParseTargets(gociTargets.val).targets[n])
         /\ Builds[n].res = "ExitError" => n = Len(Builds)
    /\ (gr.pc = "done" /\ \E n \in 1..Len(Builds) : Builds[n].res = "ExitError")
         => status = BuildFailed

\* the first of two targets exited non-zero, the second was not built
C9_Witness ==
    /\ gr.pc = "done"
    /\ Len(gr.targets) = 2
    /\ Len(Builds) = 1
    /\ Builds[1].res = "ExitError"
    /\ status = BuildFailed

\* a descriptor of the form OS:ARCH, without a tag list
PlainDescriptor(tok) ==
    LET p == Split(tok, ":") IN
    /\ Len(p) = 2
    /\ Len(p[1]) > 0 /\ \A i \in 1..Len(p[1]) : p[1][i] \in WordChars
    /\ Len(p[2]) > 0 /\ \A i \in 1..Len(p[2]) : p[2][i] \in WordChars

\* <project>-<OS>-<ARCH>, with .exe for windows
PlainName(tok) ==
    LET p == Split(tok, ":") IN
    str_demo \o <<"-">> \o p[1] \o <<"-">> \o p[2]
        \o (IF p[1] = str_windows THEN str_exe ELSE <<>>)

\* C10: for every descriptor OS:ARCH without a tag list, the artifact name
\* passed to the build command is <project>-<OS>-<ARCH>, with .exe appended
\* when OS is windows.
C10_ArtifactNames ==
    LET toks == Split(gociTargets.val, " ") IN
    \A n \in 1..Len(Builds) :
        (n <= Len(toks) /\ PlainDescriptor(toks[n])) =>
            Builds[n].s = PlainName(toks[n])

(***************************************************************************)
(* Properties of the registries.                                           *)
(***************************************************************************)
\* the Builds constructed for commit c in Project p
BuildsOf(p, c) ==
    {b \in 1..Len(builds) : builds[b].proj = p /\ builds[b].ref = c}

\* the Projects opened for a name
ProjectsOf(n) == {p \in 1..Len(projects) : projects[p].name = n}

\* the handlers inside the lookup-or-insert of CI.Project: the holder of
\* ci.projM, and the handlers whose lookup missed and that have not
\* inserted yet
InProject == {t \in Clients : projM = t \/ cl[t].pc \in {"pOpen", "pInsert"}}

\* C5: within one Project at most one Build is created per resolved commit
\* id, all GetBuild calls with that id return the same Build, and at most
\* one pipeline is launched for the commit.
C5_OneBuildPerCommit ==
    /\ \A p \in 1..Len(projects), c \in Commits :
         /\ Cardinality(BuildsOf(p, c)) <= 1
         /\ Cardinality({b \in BuildsOf(p, c) : builds[b].launched > 0}) <= 1
         /\ \A b \in BuildsOf(p, c) : builds[b].launched <= 1
    /\ \A t, u \in Clients :
         (/\ cl[t].build # 0 /\ cl[u].build # 0
          /\ cl[t].proj = cl[u].proj /\ cl[t].ref = cl[u].ref)
            => cl[t].build = cl[u].build

\* C8: concurrent Project(name) calls access the registry one at a time,
\* the clone is opened successfully at most once, and every successful call
\* returns the same Project.
C8_ProjectOnce ==
    /\ Cardinality(InProject) <= 1
    /\ \A n \in Names : Cardinality(ProjectsOf(n)) <= 1
    /\ \A t, u \in Clients :
         (cl[t].proj # 0 /\ cl[u].proj # 0 /\ cl[t].name = cl[u].name)
            => cl[t].proj = cl[u].proj

(***************************************************************************)
(* Properties of the configuration read, the parser and the log.           *)
(***************************************************************************)
\* the i-th command of the pipeline is of kind k and ended with res
Ran(i, k, res) == i <= Len(cmds) /\ cmds[i].k = k /\ cmds[i].res = res

\* the configuration read ended the way git ends it when nothing else goes
\* wrong: status 0 when the key is set, status 1 when it is not
ConfigReadAsGitDoes ==
    \/ gociTargets.set /\ Ran(3, "config", "nil")
    \/ ~gociTargets.set /\ Ran(3, "config", "ExitError")

\* C11: with no target-matrix configuration, and checkout and the build
\* command succeeding, the pipeline derives exactly one default target,
\* runs exactly one build whose artifact is named as the project, and the
\* Build ends Finished.
C11_DefaultTarget ==
    (/\ gr.pc = "done"
     /\ ~gociTargets.set \/ gociTargets.val = <<>>
     /\ Ran(1, "checkout", "nil") /\ Ran(2, "reset", "nil")
     /\ ConfigReadAsGitDoes
     /\ \A n \in 1..Len(Builds) : Builds[n].res = "nil")
    => /\ gr.targets = <<DefaultTarget>>
       /\ Len(Builds) = 1
       /\ Builds[1].s = str_demo
       /\ status = BuildFinished

\* a non-empty string of word characters
IsWord(s) == Len(s) > 0 /\ \A i \in 1..Len(s) : s[i] \in WordChars

\* tok is, as a whole, OS:ARCH(tag,...,tag)
TaggedDescriptor(tok) ==
    \E i \in 1..Len(tok) :
        /\ tok[i] = "("
        /\ tok[Len(tok)] = ")"
        /\ PlainDescriptor(Slice(tok, 1, i - 1))
        /\ LET tags == Split(Slice(tok, i + 1, Len(tok) - 1), ",") IN
           \A n \in 1..Len(tags) : IsWord(tags[n])

\* the tokens of the configuration that are not, as a whole, descriptors
BadTokens ==
    LET toks == Split(gociTargets.val, " ") IN
    {toks[n] : n \in {m \in 1..Len(toks) :
                        ~PlainDescriptor(toks[m]) /\ ~TaggedDescriptor(toks[m])}}

\* C12: a token of the configuration that is not, as a whole, of the form
\* OS:ARCH or OS:ARCH(tag,...,tag) is a parse error: no build command is
\* run, the build ends Failed and the log names such a token.
C12_MalformedTokenFails ==
    (gociTargets.set /\ gociTargets.val # <<>> /\ BadTokens # {}) =>
        /\ Builds = <<>>
        /\ (gr.pc = "done" /\ Ran(3, "config", "nil")) =>
              /\ status = BuildFailed
              /\ \E tok \in BadTokens :
                    buildLog = ErrorText(LogEntry("invalidTarget", tok, <<>>))

IsCmdline(e) == e.k = "cmdline"

\* the command lines in the log of the Build, in order
Cmdlines == SelectSeq(buildLog, IsCmdline)

\* C13: when a Build ends Failed after build commands were run, its log
\* holds the command line of every build command that was run, in the order
\* of the matrix and each before the output of its command, and the exit
\* diagnostic when a command exited non-zero.
C13_FailedLogHasCommands ==
    (gr.pc = "done" /\ status = BuildFailed /\ Len(Builds) >= 1) =>
        /\ Len(Cmdlines) = Len(Builds)
        /\ \A n \in 1..Len(Builds) : Cmdlines[n].s = Builds[n].s
        /\ \A i \in 1..Len(buildLog) :
             buildLog[i].k = "output" =>
                \E j \in 1..(i - 1) :
                    buildLog[j].k = "cmdline" /\ buildLog[j].s = buildLog[i].s
        /\ (\E n \in 1..Len(Builds) : Builds[n].res = "ExitError") =>
                \E i \in 1..Len(buildLog) : buildLog[i].k = "exitStatus"

\* a target that asks for cgo with an OS or an architecture the switches
\* of project.go:233-258 do not know
UnknownCgo(target) ==
    target.UseCgo /\ (CgoOS(target).bad \/ CgoArch(target).bad)

\* C17: for a cgo target with an unknown architecture or OS no build
\* command is run, for it or for a later target, and the Build ends Failed
\* with a log that names the architecture or the OS.
C17_UnknownCgoStopsBuild ==
    \A n \in 1..Len(gr.targets) :
        UnknownCgo(gr.targets[n]) =>
            /\ Len(Builds) < n
            /\ gr.pc = "done" =>
                  /\ status = BuildFailed
                  /\ \E m \in 1..Len(gr.targets) :
                        /\ UnknownCgo(gr.targets[m])
                        /\ buildLog = ErrorText(CgoErr(gr.targets[m], NoErr))

\* C18: when a build command fails otherwise than by a non-zero exit, the
\* Build ends Failed and its log holds the text of that error.
C18_RunErrorInLog ==
    (gr.pc = "done" /\ \E n \in 1..Len(Builds) : Builds[n].res = "other") =>
        /\ status = BuildFailed
        /\ \E i \in 1..Len(buildLog) : buildLog[i].k = "other"

(***************************************************************************)
(* Properties of the resolver, the registries and the shared clone.        *)
(***************************************************************************)
IsFetch(c) == c.k = "fetch"

\* the fetches the running call of Project.Ref has made
Fetches == SelectSeq(rs.cmds, IsFetch)

\* the first lookup succeeded and printed the reference itself
Reproduced == rs.cmds # <<>> /\ rs.cmds[1].res = "nil" /\ rs.cmds[1].out = rs.ref

\* C14: Project.Ref fetches never when its first lookup reproduces the
\* reference and once otherwise; the reference is reported as a commit id
\* in the first case only; a failed fetch does not fail the call; the call
\* returns an error exactly when its last lookup fails.
C14_RefFetchesOnceUnlessHash ==
    /\ rs.pc \in {"final", "done"} =>
          Len(Fetches) = (IF Reproduced THEN 0 ELSE 1)
    /\ rs.pc = "done" =>
          LET last == rs.cmds[Len(rs.cmds)]
          IN  /\ last.k = "rev-parse"
              /\ (rs.ret.err # "nil") <=> (last.res # "nil")
              /\ rs.ret.err = "nil" =>
                    /\ rs.ret.hash = Reproduced
                    /\ rs.ret.actualRef = last.out

\* a call that returned the id of a branch after its fetch had failed
C14_Witness ==
    /\ rs.pc = "done"
    /\ Len(Fetches) = 1 /\ Fetches[1].res # "nil"
    /\ rs.ret.err = "nil" /\ ~rs.ret.hash
    /\ rs.ref = str_master

\* handler t fails in this step, at one of the given positions
FailsAt(t, pcs) == cl[t].pc \in pcs /\ ~cl[t].err /\ cl'[t].err

\* C15: a failed CI.Project or Project.GetBuild leaves the registries as
\* they were, with no entry for the name or the commit, and the next call
\* that finds no entry opens the project or creates the Build again.
C15_FailureLeavesRegistry ==
    [][\A t \in Clients :
         /\ FailsAt(t, {"pOpen"}) =>
               /\ ciProj' = ciProj /\ projects' = projects
               /\ ciProj[cl[t].name] = 0
         /\ (cl[t].pc = "pUnlock" /\ cl[t].err) => ciProj[cl[t].name] = 0
         /\ (cl[t].pc = "pLookup" /\ ciProj[cl[t].name] = 0 /\ cl'[t] # cl[t]) =>
               cl'[t].pc = "pOpen"
         /\ FailsAt(t, {"gMkdir", "gExec"}) =>
               /\ builds' = builds /\ projects' = projects
               /\ projects[cl[t].proj].build[cl[t].ref] = 0
         /\ (cl[t].pc = "gUnlock" /\ cl[t].err) =>
               projects[cl[t].proj].build[cl[t].ref] = 0
         /\ (/\ cl[t].pc = "gLookup"
             /\ projects[cl[t].proj].build[cl[t].ref] = 0
             /\ cl'[t] # cl[t]) => cl'[t].pc = "gMkdir"
      ]_vars

\* a handler creates the Build another handler has failed to create
C15_Witness ==
    \E t, u \in Clients :
        /\ cl[t].pc = "ret" /\ cl[t].err
        /\ cl[t].proj # 0 /\ cl[t].ref \in Commits /\ cl[t].build = 0
        /\ cl[u].pc = "gExec"
        /\ cl[u].proj = cl[t].proj /\ cl[u].ref = cl[t].ref
        /\ Len(projects) = 1 /\ ciProj[cl[t].name] = cl[t].proj

\* C16: a Build whose status is InProgress gets the status Finished or
\* Failed eventually, on every path of the pipeline, when its commands
\* return and its goroutine is scheduled.
C16_InProgressEnds == (status = BuildInProgress) ~> (status \in Terminal)

\* a pipeline that has ended on the error of the target parser
C16_Witness ==
    /\ gr.pc = "done"
    /\ gr.err.k = "invalidTarget"
    /\ status = BuildFailed
    /\ launched = 1

\* C19: no handler holds ci.projM while OpenProject runs its command, and
\* none holds proj.buildM while GetBuild runs git show-branch.
C19_NoLockAcrossCommand ==
    \A t \in Clients :
        /\ cl[t].pc = "pOpen" => projM # t
        /\ cl[t].pc = "gExec" => projects[cl[t].proj].buildM # t

\* C20: once a pipeline has run its checkout and its reset, its code
\* directory holds the commit of its own Build, however the commands of the
\* two pipelines interleave.
C20_OwnCommitCheckedOut ==
    \A i \in Pipes :
        co.p[i].pc = "config" => co.wt[i] = co.p[i].ref

(***************************************************************************)
(* The Build of one commit over several lifetimes of the process.  The     *)
(* process can end at any point of the pipeline; the next lifetime finds   *)
(* the directories as they were left and constructs the Build anew         *)
(* (project.go:114-118), and its first request starts the pipeline.        *)
(***************************************************************************)
\* the number of lifetimes
MaxLifetimes == 3

\* the pipeline of this lifetime has built every target with exit status 0
BuiltAll ==
    /\ gr.targets # <<>>
    /\ Len(Builds) = Len(gr.targets)
    /\ \A n \in 1..Len(Builds) : Builds[n].res = "nil"

\* the pipeline of this lifetime has ended Failed, with the code directory
\* left and the files directory removed (project.go:138-141)
EndedFailed ==
    /\ gr.pc = "done" /\ status = BuildFailed
    /\ codeDir /\ ~filesDir

\* the process ends, by a crash or otherwise, and is started again: the
\* directories stay, the Build is a new one (project.go:114-118)
Restart ==
    /\ life.n < MaxLifetimes
    /\ life' = [n |-> life.n + 1,
                built |-> life.built \/ BuiltAll,
                failed |-> life.failed \/ EndedFailed]
    /\ status' = BuildNotStarted
    /\ buildLog' = <<>>
    /\ launched' = 0
    /\ gr' = NoGoroutine
    /\ cmds' = <<>>
    /\ req' = [t \in Threads |-> IdleReq]
    /\ UNCHANGED <<disk, ciProj, projM, projects, builds, cl, clone>>

\* the directories of a commit that was never built
InitRestart ==
    /\ codeDir = FALSE /\ filesDir = FALSE /\ artifacts = {}
    /\ gociTargets \in ({[set |-> FALSE, val |-> <<>>]}
                        \cup {[set |-> TRUE, val |-> c] : c \in Configs})
    /\ InitBuild
    /\ InitRegistry
    /\ InitClone

\* the request that starts the build, the pipeline, and the restarts
NextRestart ==
    \/ StartBuild(1)
    \/ StartBuild_go(1)
    \/ Pipeline
    \/ Restart

SpecRestart == InitRestart /\ [][NextRestart]_vars

\* C21: over the lifetimes of the process, with crashes at any point of
\* the pipeline, the Build of a commit is Finished only if in some lifetime
\* every target was built with exit status 0; a crash between the creation
\* of the directories and the end of the pipeline does not make a later
\* lifetime report Finished.
C21_FinishedOnlyIfBuilt ==
    status = BuildFinished => (life.built \/ BuiltAll)

\* C22: after a pipeline has ended Failed, with the files directory removed
\* and the code directory left, no later lifetime runs checkout or a build
\* command, and every pipeline that ends in a later lifetime ends Failed
\* with the files directory absent.
C22_FailedStaysFailed ==
    life.failed =>
        /\ cmds = <<>>
        /\ gr.pc = "done" => (status = BuildFailed /\ ~filesDir)

=============================================================================
